---- MODULE Spec2Model ----
(***************************************************************************)
(* Model of student_ai_travel_planner.py: the rule based itinerary         *)
(* synthesizer (geocode, sample, greedy day packing, budget estimate), the *)
(* remote generator adapter, and the Streamlit script run that stores and  *)
(* renders the single session itinerary.                                   *)
(*                                                                         *)
(* Conventions.  Durations are counted in half hours (0.5 h = 1), so the   *)
(* list [0.5,1,1.5,2,3] is <<1,2,3,4,6>> and the 8 hour day is 16.  Python *)
(* None of an optional tuple is the empty sequence.  A date is its ordinal *)
(* (1 = EpochYear-01-01); isoformat() yields the triple <<y, m, d>>.  A    *)
(* POI keeps name, price and duration_hours; name is the 1-based index in  *)
(* "<Cat> Spot <i>"; lat, lon and category play no part in any control     *)
(* flow and are left out.  A Python dict result is a record with the fixed *)
(* fields of EmptyDict whose "keys" field lists the keys that are present. *)
(*                                                                         *)
(* Spec is one call of generate_rule_based_itinerary, step by step, or one *)
(* call of simple_budget_estimate.  SpecSession is a browser session: each *)
(* action is one run of the script, with the generator call it makes taken *)
(* as a whole (the same WhileBody, DayPlan, ... iterated by RunDays).      *)
(* The random source is a cycle of draws of length 1..MaxPeriod; a session *)
(* draws from the cycles of length 1.                                      *)
(***************************************************************************)
EXTENDS Integers, Sequences, FiniteSets, TLC

\* ---------------------------------------------------------------- bounds
MaxDays == 2      \* trip lengths explored: 1..MaxDays (widget allows 1..14)
MaxPeriod == 2    \* the random source repeats its draws with period 1..MaxPeriod
MaxPoolLen == 3   \* pools handed directly to simple_budget_estimate: 0..MaxPoolLen POIs

\* ------------------------------------------------------- program constants
PoolMult == 4                                  \* n=days*4
DurationChoices == <<1, 2, 3, 4, 6>>           \* [0.5,1,1.5,2,3] in half hours
PriceChoices == <<"free", "low", "medium">>
HoursPerDay == 8 * 2                           \* hours_available = 8, in half hours
EpochYear == 2026
StartDates == {365, 789}         \* 2026-12-31, 2028-02-28
Coordinates == {<<12, 77>>, <<0, 0>>}
GeocoderOutcomes == {"found", "no_result", "raises"}
NoneVal == <<>>

\* ----------------------------------------------------------- Python helpers
\* truthiness of None / a tuple
Truthy(v) == Len(v) > 0

RECURSIVE SumSeq(_)
SumSeq(s) == IF s = <<>> THEN 0 ELSE Head(s) + SumSeq(Tail(s))

\* datetime.date: calendar of an ordinal
IsLeap(y) == (y % 4 = 0 /\ y % 100 # 0) \/ y % 400 = 0
YearLen(y) == IF IsLeap(y) THEN 366 ELSE 365
DaysInMonth(y, m) ==
    IF m = 2 THEN (IF IsLeap(y) THEN 29 ELSE 28)
    ELSE IF m \in {4, 6, 9, 11} THEN 30 ELSE 31

RECURSIVE MonthDay(_, _, _)
MonthDay(n, y, m) ==
    IF n > DaysInMonth(y, m) THEN MonthDay(n - DaysInMonth(y, m), y, m + 1)
    ELSE <<y, m, n>>

RECURSIVE YearDay(_, _)
YearDay(n, y) ==
    IF n > YearLen(y) THEN YearDay(n - YearLen(y), y + 1) ELSE MonthDay(n, y, 1)

\* date.isoformat()
isoformat(ord) == YearDay(ord, EpochYear)

\* start_date + datetime.timedelta(days=day)
AddDays(ord, day) == ord + day

\* the calendar successor of a <<y, m, d>> date
NextCalendarDay(t) ==
    IF t[3] < DaysInMonth(t[1], t[2]) THEN <<t[1], t[2], t[3] + 1>>
    ELSE IF t[2] < 12 THEN <<t[1], t[2] + 1, 1>>
    ELSE <<t[1] + 1, 1, 1>>

\* ------------------------------------------------------------ random source
\* one draw = the indices random.choice picks for price and duration
Draw == [price : 1..Len(PriceChoices), duration : 1..Len(DurationChoices)]
RandomSources == UNION {[1..k -> Draw] : k \in 1..MaxPeriod}
NthDraw(rng, i) == rng[((i - 1) % Len(rng)) + 1]

\* --------------------------------------------------------------- geocode_city
geocode_city_fallback(outcome, coord) ==
    IF outcome = "found" THEN coord
    ELSE IF outcome = "raises" THEN <<0, 0>> ELSE NoneVal

geocode_city(outcome, coord) ==
    IF outcome = "found" THEN coord ELSE NoneVal

\* ------------------------------------------------------ sample_pois_for_city
MakePoi(rng, i) ==
    [name |-> i,
     price |-> PriceChoices[NthDraw(rng, i).price],
     duration_hours |-> DurationChoices[NthDraw(rng, i).duration]]

sample_pois_for_city(rng, n) == [i \in 1..n |-> MakePoi(rng, i)]

\* ---------------------------------------------------- simple_budget_estimate
CostMapGet(price) ==
    CASE price = "free" -> 0
      [] price = "low" -> 200
      [] price = "medium" -> 600
      [] OTHER -> 100

RECURSIVE Flatten(_)
Flatten(itin) ==
    IF itin = <<>> THEN <<>> ELSE Head(itin).activities \o Flatten(Tail(itin))

EstimatedScheduled(pois, scheduled) == Flatten(scheduled)

\* the argument of simple_budget_estimate(pois) in generate_rule_based_itinerary
EstimatedPool(pois, scheduled) == pois

simple_budget_estimate(pois) ==
    SumSeq([i \in 1..Len(pois) |-> CostMapGet(pois[i].price)])

\* --------------------------------------------------------- the packing loop
WhileCondOffByOne(pois, s) == s.hours_available > 0 /\ s.idx < Len(pois) - 1

\* while hours_available > 0 and idx < len(pois)
WhileCond(pois, s) == s.hours_available > 0 /\ s.idx < Len(pois)

FitsWholeDay(p, hours_available) == p.duration_hours <= HoursPerDay

\* if p["duration_hours"] <= hours_available
Fits(p, hours_available) == p.duration_hours <= hours_available

\* a body that ends the day at a POI that does not fit and offers it again
WhileBodyDefer(pois, s) ==
    LET p == pois[s.idx + 1] IN
    IF p.duration_hours <= s.hours_available
    THEN [idx |-> s.idx + 1,
          hours_available |-> s.hours_available - p.duration_hours,
          day_pois |-> Append(s.day_pois, p)]
    ELSE [idx |-> s.idx, hours_available |-> 0, day_pois |-> s.day_pois]

\* one iteration of the while body on the loop state s
WhileBody(pois, s) ==
    LET p == pois[s.idx + 1] IN
    IF Fits(p, s.hours_available)
    THEN [idx |-> s.idx + 1,
          hours_available |-> s.hours_available - p.duration_hours,
          day_pois |-> Append(s.day_pois, p)]
    ELSE [idx |-> s.idx + 1,
          hours_available |-> s.hours_available,
          day_pois |-> s.day_pois]

\* top of the for body: day_pois = [], hours_available = 8
DayStartState(idx) ==
    [idx |-> idx, hours_available |-> HoursPerDay, day_pois |-> <<>>]

DayPlanNoOffset(day, start_date, day_pois) ==
    [day |-> day + 1, date |-> isoformat(start_date), activities |-> day_pois]

\* itinerary.append({...})
DayPlan(day, start_date, day_pois) ==
    [day |-> day + 1,
     date |-> isoformat(AddDays(start_date, day)),
     activities |-> day_pois]

RECURSIVE RunWhile(_, _)
RunWhile(pois, s) ==
    IF WhileCond(pois, s) THEN RunWhile(pois, WhileBody(pois, s)) ELSE s

RECURSIVE RunDays(_, _, _, _, _, _)
RunDays(pois, start_date, days, day, idx, itin) ==
    IF day < days
    THEN LET s == RunWhile(pois, DayStartState(idx)) IN
         RunDays(pois, start_date, days, day + 1, s.idx,
                 Append(itin, DayPlan(day, start_date, s.day_pois)))
    ELSE itin

\* ------------------------------------------------------------ result values
EmptyDict ==
    [kind |-> "dict", keys |-> {}, error |-> "", latlon |-> NoneVal,
     itinerary |-> <<>>, pois |-> <<>>, budget_est |-> 0, raw |-> ""]
NoneResult == [EmptyDict EXCEPT !.kind = "None"]

\* return {"error": f"Could not geocode ..."}
GeocodeError == [EmptyDict EXCEPT !.keys = {"error"}, !.error = "Could not geocode"]

\* return {"latlon": ..., "itinerary": ..., "pois": ..., "budget_est": ...}
SuccessResult(ll, itin, ps, est) ==
    [EmptyDict EXCEPT !.keys = {"latlon", "itinerary", "pois", "budget_est"},
                      !.latlon = ll, !.itinerary = itin, !.pois = ps,
                      !.budget_est = est]

\* if not latlon
GeocodeFailed(ll) == ~Truthy(ll)

\* the whole call as a function of its inputs and of what the collaborators do
generate_rule_based_itinerary(outcome, coord, start_date, days, rng) ==
    LET ll == geocode_city(outcome, coord) IN
    IF GeocodeFailed(ll) THEN GeocodeError
    ELSE LET ps == sample_pois_for_city(rng, days * PoolMult)
             itin == RunDays(ps, start_date, days, 0, 0, <<>>)
         IN SuccessResult(ll, itin, ps, simple_budget_estimate(EstimatedPool(ps, itin)))

\* ===================================================================== state
VARIABLES
    pc,                \* where the modelled call or script run stands
    start_date, days,  \* widgets / arguments
    rng,               \* the random source the sampler draws from
    latlon, pois, itinerary, idx, day, day_pois, hours_available,
                       \* locals of generate_rule_based_itinerary
    result,            \* its return value
    geocode_calls,     \* calls made to the geocoding collaborator
    geocoder_said,     \* what the collaborator answered for the destination
    dropped,           \* names of the POIs that were longer than the hours
                       \* remaining when the cursor reached them
    est_pool, est_total,
                       \* argument and return value of simple_budget_estimate
    HF_API_KEY, HF_API_URL,
                       \* os.getenv values; "None" stands for an unset variable
    origin, use_hf,    \* widgets
    session_itinerary, \* st.session_state.itinerary
    button,            \* whether this script run was started by "Generate itinerary"
    generator,         \* the generator this run's handler called: none, local, remote
    last_generated,    \* what the most recent generator call returned
    branch, screen, exception, origin_lookup
                       \* what the render block of this script run did

session_vars == <<HF_API_KEY, HF_API_URL, origin, use_hf, session_itinerary,
                  button, generator, last_generated, branch, screen, exception,
                  origin_lookup>>

local_vars == <<pc, rng, latlon, pois, itinerary, idx, day, day_pois,
                hours_available, result, geocode_calls, geocoder_said, dropped,
                est_pool, est_total>>

vars == <<start_date, days, local_vars, session_vars>>

\* price labels a caller may put into a POI, one of them not in cost_map
AnyPrices == {"free", "low", "medium", "premium"}
DirectPools ==
    UNION {[1..k -> [name : {0}, price : AnyPrices, duration_hours : {1}]] :
           k \in 0..MaxPoolLen}

LoopState == [idx |-> idx, hours_available |-> hours_available, day_pois |-> day_pois]

LocalsInit ==
    /\ latlon = NoneVal
    /\ pois = <<>>
    /\ itinerary = <<>>
    /\ idx = 0
    /\ day = 0
    /\ day_pois = <<>>
    /\ hours_available = 0
    /\ result = NoneResult
    /\ geocode_calls = 0
    /\ geocoder_said = "not_asked"
    /\ dropped = {}

\* the state of a session in which the script has run once and nothing was clicked
SessionStart ==
    /\ origin = ""
    /\ use_hf = FALSE
    /\ session_itinerary = NoneResult
    /\ button = FALSE
    /\ generator = "none"
    /\ last_generated = NoneResult
    /\ branch = "none"
    /\ screen = <<>>
    /\ exception = ""
    /\ origin_lookup = "not_run"

\* a call of generate_rule_based_itinerary about to start
InitGenerate ==
    /\ pc = "geocode"
    /\ start_date \in StartDates
    /\ days \in 1..MaxDays
    /\ rng \in RandomSources
    /\ est_pool = <<>>
    /\ est_total = 0
    /\ LocalsInit
    /\ HF_API_KEY = "None"
    /\ HF_API_URL = "None"
    /\ SessionStart

\* a call of simple_budget_estimate about to start
InitEstimate ==
    /\ pc = "estimate_call"
    /\ start_date = 365
    /\ days = 1
    /\ rng = <<[price |-> 1, duration |-> 1]>>
    /\ est_pool \in DirectPools
    /\ est_total = 0
    /\ LocalsInit
    /\ HF_API_KEY = "None"
    /\ HF_API_URL = "None"
    /\ SessionStart

Init == InitGenerate \/ InitEstimate

\* line 96-98
Geocode ==
    /\ pc = "geocode"
    /\ \E o \in GeocoderOutcomes, c \in Coordinates :
          /\ latlon' = geocode_city(o, c)
          /\ geocode_calls' = geocode_calls + 1
          /\ geocoder_said' = o
          /\ IF GeocodeFailed(latlon')
             THEN result' = GeocodeError /\ pc' = "done"
             ELSE result' = result /\ pc' = "sample"
    /\ UNCHANGED <<start_date, days, rng, pois, itinerary, idx, day, day_pois,
                   hours_available, dropped, est_pool, est_total,
                   session_vars>>

\* line 100-102
Sample ==
    /\ pc = "sample"
    /\ pois' = sample_pois_for_city(rng, days * PoolMult)
    /\ itinerary' = <<>>
    /\ idx' = 0
    /\ day' = 0
    /\ pc' = "for"
    /\ UNCHANGED <<start_date, days, rng, latlon, day_pois, hours_available,
                   result, geocode_calls, geocoder_said, dropped, est_pool, est_total,
                   session_vars>>

\* line 103-105
DayStart ==
    /\ pc = "for"
    /\ day < days
    /\ day_pois' = DayStartState(idx).day_pois
    /\ hours_available' = DayStartState(idx).hours_available
    /\ pc' = "while"
    /\ UNCHANGED <<start_date, days, rng, latlon, pois, itinerary, idx, day,
                   result, geocode_calls, geocoder_said, dropped, est_pool, est_total,
                   session_vars>>

\* line 106-111, one iteration
WhileStep ==
    /\ pc = "while"
    /\ WhileCond(pois, LoopState)
    /\ LET s == WhileBody(pois, LoopState) IN
          /\ idx' = s.idx
          /\ hours_available' = s.hours_available
          /\ day_pois' = s.day_pois
          /\ dropped' = IF pois[idx + 1].duration_hours > hours_available
                        THEN dropped \cup {pois[idx + 1].name}
                        ELSE dropped
    /\ UNCHANGED <<pc, start_date, days, rng, latlon, pois, itinerary, day,
                   result, geocode_calls, geocoder_said, est_pool, est_total,
                   session_vars>>

\* line 106, the condition is false
WhileExit ==
    /\ pc = "while"
    /\ ~WhileCond(pois, LoopState)
    /\ pc' = "append"
    /\ UNCHANGED <<start_date, days, rng, latlon, pois, itinerary, idx, day,
                   day_pois, hours_available, result, geocode_calls, geocoder_said, dropped,
                   est_pool, est_total,
                   session_vars>>

\* line 112-116
DayEnd ==
    /\ pc = "append"
    /\ itinerary' = Append(itinerary, DayPlan(day, start_date, day_pois))
    /\ day' = day + 1
    /\ pc' = "for"
    /\ UNCHANGED <<start_date, days, rng, latlon, pois, idx, day_pois,
                   hours_available, result, geocode_calls, geocoder_said, dropped,
                   est_pool, est_total,
                   session_vars>>

\* line 117-118
Return ==
    /\ pc = "for"
    /\ ~(day < days)
    /\ est_pool' = EstimatedPool(pois, itinerary)
    /\ est_total' = simple_budget_estimate(est_pool')
    /\ result' = SuccessResult(latlon, itinerary, pois, est_total')
    /\ pc' = "done"
    /\ UNCHANGED <<start_date, days, rng, latlon, pois, itinerary, idx, day,
                   day_pois, hours_available, geocode_calls, geocoder_said, dropped,
                   session_vars>>

\* line 90-93, called on its own
EstimateCall ==
    /\ pc = "estimate_call"
    /\ est_total' = simple_budget_estimate(est_pool)
    /\ pc' = "estimated"
    /\ UNCHANGED <<start_date, days, rng, latlon, pois, itinerary, idx, day,
                   day_pois, hours_available, result, geocode_calls, geocoder_said, dropped,
                   est_pool,
                   session_vars>>

Next ==
    \/ Geocode
    \/ Sample
    \/ DayStart
    \/ WhileStep
    \/ WhileExit
    \/ DayEnd
    \/ Return
    \/ EstimateCall

Spec == Init /\ [][Next]_vars

\* ==================================================== properties of one call
Durations(ps) == [i \in 1..Len(ps) |-> ps[i].duration_hours]
Names(ps) == [i \in 1..Len(ps) |-> ps[i].name]
Succeeded == pc = "done" /\ "itinerary" \in result.keys
Failed == pc = "done" /\ "error" \in result.keys

\* the price table, by counting
CountPrice(ps, price) == Cardinality({i \in 1..Len(ps) : ps[i].price = price})
TableSum(ps) ==
    200 * CountPrice(ps, "low") + 600 * CountPrice(ps, "medium")
    + 100 * Cardinality({i \in 1..Len(ps) :
                            ps[i].price \notin {"free", "low", "medium"}})

\* C1: every DayPlan, finished or being filled, holds at most 8 hours (16 half
\* hours) of activities, and hours_available is never negative.
C1_DayWithinBudget ==
    /\ hours_available >= 0
    /\ SumSeq(Durations(day_pois)) <= 16
    /\ \A k \in 1..Len(itinerary) : SumSeq(Durations(itinerary[k].activities)) <= 16
    /\ \A k \in 1..Len(result.itinerary) :
          SumSeq(Durations(result.itinerary[k].activities)) <= 16

\* a finished call in which a POI did not fit and a day was filled to the hour
C1_Witness ==
    /\ Succeeded
    /\ dropped # {}
    /\ \E k \in 1..Len(result.itinerary) :
          SumSeq(Durations(result.itinerary[k].activities)) = 16

\* C2: a successful call returns exactly `days` DayPlans, numbered 1..days, the
\* first dated start_date and each next one dated the following calendar day.
C2_OnePlanPerDay ==
    Succeeded =>
        /\ Len(result.itinerary) = days
        /\ \A k \in 1..days : result.itinerary[k].day = k
        /\ result.itinerary[1].date = isoformat(start_date)
        /\ \A k \in 1..(days - 1) :
              result.itinerary[k + 1].date = NextCalendarDay(result.itinerary[k].date)

\* the pool ran out on day 1 and day 2 is there, empty, dated in the next year
C2_Witness ==
    /\ Succeeded
    /\ days >= 2
    /\ result.itinerary[1].activities # <<>>
    /\ result.itinerary[2].activities = <<>>
    /\ result.itinerary[1].date[1] < result.itinerary[2].date[1]

\* C3: a POI longer than the hours remaining when the cursor reaches it is
\* passed (the cursor moves on), is in no DayPlan, current or later, and is
\* still in the pool the estimate sums; durations [3,3,3,3] with days=1
\* schedule the first two POIs (6 hours) and drop the last two.
C3_DroppedPoi ==
    /\ \A n \in dropped :
          /\ n <= idx
          /\ \A i \in 1..Len(day_pois) : day_pois[i].name # n
          /\ \A k \in 1..Len(itinerary) :
                \A i \in 1..Len(itinerary[k].activities) :
                    itinerary[k].activities[i].name # n
    /\ Succeeded =>
          /\ \A n \in dropped :
                /\ n \in 1..Len(result.pois)
                /\ result.pois[n].name = n
                /\ \A k \in 1..Len(result.itinerary) :
                      \A i \in 1..Len(result.itinerary[k].activities) :
                          result.itinerary[k].activities[i].name # n
          /\ result.budget_est = TableSum(result.pois)
    /\ (Succeeded /\ days = 1 /\ Durations(result.pois) = <<6, 6, 6, 6>>) =>
          /\ Names(result.itinerary[1].activities) = <<1, 2>>
          /\ SumSeq(Durations(result.itinerary[1].activities)) = 12
          /\ dropped = {3, 4}

\* the [3,3,3,3] scenario, with priced POIs
C3_Witness ==
    /\ Succeeded
    /\ days = 1
    /\ Durations(result.pois) = <<6, 6, 6, 6>>
    /\ result.pois[3].price = "medium"

\* C4: simple_budget_estimate is the sum of free 0, low 200, medium 600, other
\* 100 over the pool it is given, 0 for the empty pool; budget_est of a
\* successful call is that sum over the whole pool of days*4 POIs.
C4_BudgetEstimate ==
    /\ pc = "estimated" => est_total = TableSum(est_pool)
    /\ (pc = "estimated" /\ est_pool = <<>>) => est_total = 0
    /\ Succeeded =>
          /\ Len(result.pois) = days * 4
          /\ result.budget_est = TableSum(result.pois)

\* a successful call whose pool holds a priced POI that was dropped
C4_Witness ==
    /\ Succeeded
    /\ \E n \in dropped : result.pois[n].price # "free"
    /\ result.budget_est > TableSum(Flatten(result.itinerary))

\* C5: when the geocoder finds nothing or raises, the call returns only an
\* error, having asked the geocoder once and sampled, packed and estimated
\* nothing; when the geocoder finds the place the call returns latlon,
\* itinerary, pois and budget_est and no error.
C5_GeocodeFailureOnlyError ==
    pc = "done" =>
        /\ geocode_calls = 1
        /\ geocoder_said # "found" =>
              /\ result.keys = {"error"}
              /\ result.error # ""
              /\ pois = <<>> /\ itinerary = <<>> /\ day = 0 /\ idx = 0
              /\ est_pool = <<>> /\ est_total = 0
        /\ geocoder_said = "found" =>
              /\ result.keys = {"latlon", "itinerary", "pois", "budget_est"}
              /\ result.latlon = latlon /\ Len(latlon) = 2
              /\ Len(result.pois) = days * 4

\* the geocoder raised and the call ended with an error
C5_Witness == Failed /\ geocoder_said = "raises"

\* the activities scheduled so far, in day order
Scheduled == Flatten(itinerary) \o (IF pc \in {"while", "append"} THEN day_pois ELSE <<>>)

\* C10: a day's while loop is left only with no hours remaining or with the
\* cursor at the end of the pool; a day with hours to spare leaves the cursor at
\* the end and only empty days after it; the activities, in day order, are POIs
\* of the pool at strictly increasing positions.
C10_EndOfDay ==
    /\ pc = "append" => (hours_available = 0 \/ idx = Len(pois))
    /\ \A k \in 1..Len(itinerary) :
          SumSeq(Durations(itinerary[k].activities)) < 16 =>
              /\ idx = Len(pois)
              /\ \A j \in (k + 1)..Len(itinerary) : itinerary[j].activities = <<>>
    /\ \A i \in 1..Len(Scheduled) :
          /\ Scheduled[i].name \in 1..Len(pois)
          /\ pois[Scheduled[i].name] = Scheduled[i]
          /\ i > 1 => Scheduled[i - 1].name < Scheduled[i].name
    /\ Succeeded => result.itinerary = itinerary /\ result.pois = pois

\* day 1 ended with hours to spare after dropping a POI, and day 2 is empty
C10_Witness ==
    /\ Succeeded
    /\ days >= 2
    /\ dropped # {}
    /\ SumSeq(Durations(result.itinerary[1].activities)) \in 1..15
    /\ result.itinerary[2].activities = <<>>

\* ======================================================= the Streamlit session
KeyValues == {"None", "", "hf_token"}
UrlValues == {"None", "https://endpoint"}
Origins == {"", "Mysuru"}

\* truthiness of an os.getenv value
TruthyStr(v) == v \notin {"None", ""}

\* what the remote collaborator can answer to requests.post
RemoteOutcomes ==
    {"network_error", "json_full", "json_partial", "json_scalar", "not_json"}

RemotePoi == [name |-> 1, price |-> "low", duration_hours |-> 4]
RemoteDay == [day |-> 1, date |-> <<2026, 12, 31>>, activities |-> <<RemotePoi>>]

\* line 130-141
call_huggingface_for_itinerary(url, outcome) ==
    IF ~TruthyStr(url) \/ outcome = "network_error"
    THEN \* requests.post raises; return {"error": str(e)}
         [EmptyDict EXCEPT !.keys = {"error"}, !.error = "request failed"]
    ELSE CASE outcome = "json_full" ->
                SuccessResult(<<12, 77>>, <<RemoteDay>>, <<RemotePoi>>, 200)
           [] outcome = "json_partial" ->
                [EmptyDict EXCEPT !.keys = {"itinerary"}, !.itinerary = <<RemoteDay>>]
           [] outcome = "json_scalar" ->
                [EmptyDict EXCEPT !.kind = "other"]
           [] OTHER -> \* json.loads raises; return {"raw": text}
                [EmptyDict EXCEPT !.keys = {"raw"}, !.raw = "generated text"]

\* line 178: if use_hf and HF_API_KEY
UsesRemote(hf, key, url) == hf /\ TruthyStr(key)

\* a store that keeps the previous itinerary when the new result is an error
StoreUnlessError(old, new) ==
    IF "error" \in new.keys THEN old ELSE new

\* line 182
StoreResult(old, new) == new

\* line 185: if st.session_state.itinerary
TruthyResult(r) ==
    CASE r.kind = "None" -> FALSE
      [] r.kind = "dict" -> r.keys # {}
      [] OTHER -> TRUE

\* line 187: if result.get("error")
GetError(r) == "error" \in r.keys /\ r.error # ""

\* line 242: if csv_export
HasActivity(r) == \E k \in 1..Len(r.itinerary) : r.itinerary[k].activities # <<>>

Rendered(b, sc, ex, lookup) ==
    [branch |-> b, screen |-> sc, exception |-> ex, origin_lookup |-> lookup]

\* line 185-246; o, c: what the geocoder answers for the origin
RenderBlock(r, o, c) ==
    IF ~TruthyResult(r) THEN Rendered("none", <<>>, "", "not_run")
    ELSE IF r.kind # "dict" THEN Rendered("none", <<>>, "AttributeError", "not_run")
    ELSE IF GetError(r) THEN Rendered("error", <<"error">>, "", "not_run")
    ELSE
      LET text == <<"metrics", "itinerary_header">>
                    \o [k \in 1..Len(r.itinerary) |-> "day_text"]
          orig_coords == geocode_city(o, c)
          lookup == IF Truthy(orig_coords) THEN "found" ELSE "failed"
      IN  IF ~Truthy(r.latlon) /\ "pois" \notin r.keys
          THEN Rendered("success", text, "KeyError", lookup)
          ELSE IF ~Truthy(r.latlon) /\ r.pois = <<>>
          THEN Rendered("success", text, "IndexError", lookup)
          ELSE IF ~Truthy(orig_coords)
          THEN \* folium rejects a None location
               Rendered("success", text, "ValueError", lookup)
          ELSE Rendered("success",
                        text \o <<"map">>
                             \o (IF HasActivity(r) THEN <<"download">> ELSE <<>>)
                             \o <<"success">>,
                        "", lookup)

\* the geocoder finds nothing for an empty query
OriginOutcomes(org) ==
    IF org = "" THEN GeocoderOutcomes \ {"found"} ELSE GeocoderOutcomes

\* the sidebar (line 156-158) and the render block, on the values of this run
RunRender(org, slot, head) ==
    \E o \in OriginOutcomes(org), c \in Coordinates :
        LET rb == RenderBlock(slot, o, c) IN
        /\ branch' = rb.branch
        /\ screen' = head \o rb.screen
        /\ exception' = rb.exception
        /\ origin_lookup' = rb.origin_lookup

\* the random sources a session's generate action draws from
SessionSources == {r \in RandomSources : Len(r) = 1}

InitSession ==
    /\ pc = "session"
    /\ start_date = 365
    /\ days = 2
    /\ rng = <<[price |-> 1, duration |-> 1]>>
    /\ est_pool = <<>>
    /\ est_total = 0
    /\ LocalsInit
    /\ HF_API_KEY \in KeyValues
    /\ HF_API_URL \in UrlValues
    /\ SessionStart

\* a widget changes and the script reruns with the button not pressed
Rerun(org, hf, n) ==
    /\ origin' = org
    /\ use_hf' = hf
    /\ days' = n
    /\ button' = FALSE
    /\ generator' = "none"
    /\ RunRender(org, session_itinerary, <<>>)
    /\ UNCHANGED <<start_date, local_vars, HF_API_KEY, HF_API_URL,
                   session_itinerary, last_generated>>

SetOrigin ==
    /\ pc = "session"
    /\ \E org \in Origins \ {origin} : Rerun(org, use_hf, days)

SetDays ==
    /\ pc = "session"
    /\ \E n \in (1..MaxDays) \ {days} : Rerun(origin, use_hf, n)

ToggleHF ==
    /\ pc = "session"
    /\ Rerun(origin, ~use_hf, days)

\* line 173-175, then the render block
ClickGenerateNoOrigin ==
    /\ pc = "session"
    /\ origin = ""
    /\ button' = TRUE
    /\ generator' = "none"
    /\ RunRender(origin, session_itinerary, <<"warning">>)
    /\ UNCHANGED <<start_date, days, local_vars, HF_API_KEY, HF_API_URL, origin,
                   use_hf, session_itinerary, last_generated>>

\* line 173-182, then the render block
ClickGenerate ==
    /\ pc = "session"
    /\ origin # ""
    /\ button' = TRUE
    /\ \E new \in
          IF UsesRemote(use_hf, HF_API_KEY, HF_API_URL)
          THEN {call_huggingface_for_itinerary(HF_API_URL, ro) : ro \in RemoteOutcomes}
          ELSE {generate_rule_based_itinerary(o, c, start_date, days, r) :
                   o \in GeocoderOutcomes, c \in Coordinates, r \in SessionSources} :
          /\ generator' = IF UsesRemote(use_hf, HF_API_KEY, HF_API_URL)
                          THEN "remote" ELSE "local"
          /\ last_generated' = new
          /\ session_itinerary' = StoreResult(session_itinerary, new)
          /\ RunRender(origin, session_itinerary', <<>>)
    /\ UNCHANGED <<start_date, days, local_vars, HF_API_KEY, HF_API_URL, origin,
                   use_hf>>

NextSession ==
    \/ SetOrigin
    \/ SetDays
    \/ ToggleHF
    \/ ClickGenerateNoOrigin
    \/ ClickGenerate

SpecSession == InitSession /\ [][NextSession]_vars

\* ================================================= properties of the session
FullStructure(r) ==
    r.kind = "dict" /\ {"itinerary", "pois", "latlon", "budget_est"} \subseteq r.keys

\* C6: the render block takes the success branch only with a result that
\* carries the full itinerary structure.
C6_NoPartialAsSuccess ==
    branch = "success" => FullStructure(session_itinerary)

\* C7: when the origin the user entered cannot be geocoded, the run shows an
\* error and renders no itinerary text, map or success message, and no step
\* works with the missing origin coordinate.
C7_OriginFailureTerminal ==
    (origin # "" /\ origin_lookup = "failed") =>
        /\ branch = "error"
        /\ \A i \in 1..Len(screen) :
              screen[i] \notin {"itinerary_header", "day_text", "map", "success"}
        /\ exception = ""

\* C8: the remote adapter is called only with the toggle on and both
\* HF_API_KEY and HF_API_URL present; with either absent a generate action
\* uses the local generator.
C8_RemoteNeedsBothValues ==
    /\ generator = "remote" =>
          use_hf /\ TruthyStr(HF_API_KEY) /\ TruthyStr(HF_API_URL)
    /\ (button /\ origin # "" /\ ~(TruthyStr(HF_API_KEY) /\ TruthyStr(HF_API_URL))) =>
          generator = "local"

\* C9: the slot is None until the first generate action with an origin, and
\* after that it is exactly what the most recent such action's generator
\* returned; no other run changes it.
C9_SlotReplacedWholesale == session_itinerary = last_generated

\* a click with an empty origin after an error result had been stored
C9_Witness ==
    /\ button
    /\ origin = ""
    /\ screen = <<"warning", "error">>
    /\ "error" \in session_itinerary.keys

====
